---- MODULE Spec2Model ----
(***************************************************************************)
(* A model of watchf: the WatchService (watchservice.go), its filters and  *)
(* debouncer (filter.go) and its command executor (executor.go).           *)
(*                                                                         *)
(* Strings are sequences of one-character strings, so that the "./" key    *)
(* prefix of watchFolders, strings.HasPrefix and strings.Replace are       *)
(* computed character by character as the Go code computes them.           *)
(* One unit of time is FileCloseCheckInterval (20 ms).                     *)
(***************************************************************************)
EXTENDS Integers, Sequences, FiniteSets, TLC

(***************************************************************************)
(* Bounds of the model                                                     *)
(***************************************************************************)
\* raw events the notification source delivers in one run
MaxEvents == 2
\* events waiting in the buffered channel (eventBufSize is 1024*1024)
MaxQueue == 2
\* the clock stops advancing MaxTime units after the service was built
MaxTime == 3
\* longest file content, in bytes
MaxFileLen == 1

(***************************************************************************)
(* Program constants                                                       *)
(***************************************************************************)
FileCloseCheckInterval == 1
FileCloseCheckThreshold == 2

VarFilename == <<"%", "f">>
VarEventType == <<"%", "t">>
PathSeparator == <<"/">>

CreateEvent == "create"
DeleteEvent == "delete"
ModifyEvent == "modify"
RenameEvent == "rename"
ValidEvents == {CreateEvent, DeleteEvent, ModifyEvent, RenameEvent}

(***************************************************************************)
(* Strings                                                                 *)
(***************************************************************************)
Range(seq) == {seq[i] : i \in 1..Len(seq)}

\* strings.HasPrefix(s, prefix)
HasPrefix(s, prefix) ==
    /\ Len(s) >= Len(prefix)
    /\ SubSeq(s, 1, Len(prefix)) = prefix

RECURSIVE ReplaceFirst(_, _, _)
\* a plausible slip of strings.Replace: n = 1 instead of -1
ReplaceFirst(s, old, new) ==
    IF Len(s) < Len(old) THEN s
    ELSE IF HasPrefix(s, old)
         THEN new \o SubSeq(s, Len(old) + 1, Len(s))
         ELSE <<Head(s)>> \o ReplaceFirst(Tail(s), old, new)

RECURSIVE Replace(_, _, _)
\* strings.Replace(s, old, new, -1) for a non-empty old: the non-overlapping
\* occurrences of old, found from the left, are each replaced by new
Replace(s, old, new) ==
    IF Len(s) < Len(old) THEN s
    ELSE IF HasPrefix(s, old)
         THEN new \o Replace(SubSeq(s, Len(old) + 1, Len(s)), old, new)
         ELSE <<Head(s)>> \o Replace(Tail(s), old, new)

\* strings.ToLower on the event names the model draws
ToLower(name) ==
    CASE name = "ALL" -> "all"
      [] name = "Modify" -> "modify"
      [] name = "CREATE" -> "create"
      [] OTHER -> name

(***************************************************************************)
(* fsnotify.FileEvent: a name and a kind.  IsModify is also true of an     *)
(* attribute change, as in the library ("modify | attrib").                *)
(***************************************************************************)
Kinds == {"Create", "Modify", "Delete", "Rename", "Attrib"}

IsCreate(e) == e.kind = "Create"
IsAttrib(e) == e.kind = "Attrib"
IsModify(e) == e.kind \in {"Modify", "Attrib"}
IsDelete(e) == e.kind = "Delete"
IsRename(e) == e.kind = "Rename"

(***************************************************************************)
(* Pure functions of watchservice.go, filter.go and executor.go            *)
(***************************************************************************)
\* validateWatchFlags: [err, flags]; the flags are the keys of the map
validateWatchFlags(events) ==
    LET lower == [i \in 1..Len(events) |-> ToLower(events[i])]
        names == {lower[i] : i \in 1..Len(events)}
    IN  IF Len(events) = 0 THEN [err |-> TRUE, flags |-> {}]
        ELSE IF \E n \in names : n # "all" /\ n \notin ValidEvents
             THEN [err |-> TRUE, flags |-> {}]
        ELSE IF "all" \in names THEN [err |-> FALSE, flags |-> ValidEvents]
        ELSE [err |-> FALSE, flags |-> names \cap ValidEvents]

\* a plausible slip: the IsModify case ahead of the IsAttrib case
checkEventTypeAttribAsModify(watchedEvents, e) ==
    IF IsCreate(e) THEN CreateEvent \in watchedEvents
    ELSE IF IsModify(e) THEN ModifyEvent \in watchedEvents
    ELSE IF IsAttrib(e) THEN FALSE
    ELSE IF IsDelete(e) THEN DeleteEvent \in watchedEvents
    ELSE IF IsRename(e) THEN RenameEvent \in watchedEvents
    ELSE FALSE

\* checkEventType: the first case of the switch that applies decides
checkEventType(watchedEvents, e) ==
    IF IsCreate(e) THEN CreateEvent \in watchedEvents
    ELSE IF IsAttrib(e) THEN FALSE
    ELSE IF IsModify(e) THEN ModifyEvent \in watchedEvents
    ELSE IF IsDelete(e) THEN DeleteEvent \in watchedEvents
    ELSE IF IsRename(e) THEN RenameEvent \in watchedEvents
    ELSE FALSE

\* regexp.MatchString for the patterns the model draws: ".*" matches every
\* name, a pattern of literal characters matches a name that contains it
MatchString(pattern, s) ==
    IF pattern = <<".", "*">> THEN TRUE
    ELSE \E i \in 1..(Len(s) - Len(pattern) + 1) :
            SubSeq(s, i, i + Len(pattern) - 1) = pattern

\* a plausible slip: the pattern gate left open
checkPatternMatchingOpen(pattern, e) == TRUE

checkPatternMatching(pattern, e) == MatchString(pattern, e.name)

\* a plausible slip: delta >= 0
checkExecIntervalNotStrict(last, interval, t) ==
    IF interval = 0 THEN TRUE
    ELSE t - (last + interval) >= 0

\* checkExecInterval(lastExec, interval, now)
checkExecInterval(last, interval, t) ==
    IF interval = 0 THEN TRUE
    ELSE LET nextExec == last + interval
             delta == t - nextExec
         IN  delta > 0

getEventType(e) ==
    IF IsCreate(e) THEN <<"E", "N", "T", "R", "Y", "_", "C", "R", "E", "A", "T", "E">>
    ELSE IF IsModify(e) THEN <<"E", "N", "T", "R", "Y", "_", "M", "O", "D", "I", "F", "Y">>
    ELSE IF IsDelete(e) THEN <<"E", "N", "T", "R", "Y", "_", "D", "E", "L", "E", "T", "E">>
    ELSE IF IsRename(e) THEN <<"E", "N", "T", "R", "Y", "_", "R", "E", "N", "A", "M", "E">>
    ELSE <<>>

\* a plausible slip: only the first occurrence of each token replaced
evaluateVariablesFirstOnly(command, e) ==
    ReplaceFirst(ReplaceFirst(command, VarFilename, e.name), VarEventType, getEventType(e))

evaluateVariables(command, e) ==
    Replace(Replace(command, VarFilename, e.name), VarEventType, getEventType(e))

(***************************************************************************)
(* Files: a content is a sequence of bytes; hash/adler32 as the library    *)
(* computes it                                                             *)
(***************************************************************************)
Bytes == {1, 2}

Contents == UNION {[1..n -> Bytes] : n \in 0..MaxFileLen}

RECURSIVE adlerA(_)
adlerA(c) == IF c = <<>> THEN 1
             ELSE (adlerA(SubSeq(c, 1, Len(c) - 1)) + c[Len(c)]) % 65521

RECURSIVE adlerB(_)
adlerB(c) == IF c = <<>> THEN 0
             ELSE (adlerB(SubSeq(c, 1, Len(c) - 1)) + adlerA(c)) % 65521

\* getContentHash on a file that can be read
getContentHash(c) == adlerB(c) * 65536 + adlerA(c)

\* getFileSize on a file that can be stat'ed
getFileSize(c) == Len(c)

(***************************************************************************)
(* The state of the program and of its environment                         *)
(***************************************************************************)
VARIABLES
    path,            \* WatchService.path
    config,          \* WatchService.config: Recursive, Events, IncludePattern, Commands, Interval
    ContinueOnError, \* the package's continue-on-error flag
    watchFlags,      \* WatchService.watchFlags (the keys of the map)
    watcher,         \* WatchService.watcher: "nil", "open" or "closed"
    watches,         \* the paths registered with the notification source
    dirs,            \* WatchService.dirs (the keys of the map)
    entries,         \* WatchService.entries: name -> FileEntry
    events,          \* the buffered channel made by Start
    eventsClosed,    \* whether close(events) was called
    producer,        \* the goroutine of startWatcher: "none", "running", "done"
    worker,          \* the goroutine of startWorker: "none", "idle", "poll", "fingerprint", "run", "exited"
    evt,             \* the event the worker is processing
    lastSize,        \* waitForFileClose: lastSize (0 outside the call)
    counter,         \* waitForFileClose: counter (0 outside the call)
    cmdIdx,          \* run: the index of the next command
    lastExec,        \* startWorker: lastExec (0 is the zero time)
    now,             \* time.Now()
    started,         \* what Start did: "none", "nil", "error", "panic"
    watcherErr,      \* the error startWatcher returned: "nil" or what failed
    files,           \* the content of each file, by its cleaned path
    delivered,       \* raw events delivered so far
    stages,          \* the stages the event in evt went through, in order
    outcome,         \* how the processing of the event in evt ended ("" while it goes on)
    checkedAt,       \* while evt is debounced: the time at which the throttle gate was asked
    prevCheckedAt,   \* of the latest event whose commands were run: when the gate was asked (0: none)
    prevDebounce,    \* of that event: the time its debouncer took (0 when it had none)
    purged,          \* the names the sync of evt deleted from entries
    lastCmd,         \* the latest command line handed to exec.Command for evt, with how it ended
    daemon           \* the Daemon that wraps the service, with its pid file and the processes

vars == <<path, config, ContinueOnError, watchFlags, watcher, watches, dirs, entries,
          events, eventsClosed, producer, worker, evt, lastSize, counter, cmdIdx,
          lastExec, now, started, watcherErr, files, delivered, stages, outcome,
          checkedAt, prevCheckedAt, prevDebounce, purged, lastCmd, daemon>>

cfgVars == <<path, config, ContinueOnError, watchFlags>>

NoEvent == [name |-> <<>>, kind |-> "none"]
NoCmd == [line |-> <<>>, command |-> <<>>, event |-> NoEvent, err |-> FALSE]
NoEntries == [n \in {} |-> [size |-> 0, hash |-> 0]]

\* os.Getpid(): the id of the process that runs this program
OwnPid == 1
\* the ids of the other processes that may have left a pid file behind
OtherPids == {2, 3}

\* NewDaemon(name, service): the zero values of the other fields; no pid
\* file, no call made yet (pidFile 0: no file; pid 0: the zero value)
NewDaemon ==
    [running |-> FALSE, foreground |-> FALSE, pid |-> 0, pidFile |-> 0,
     service |-> "stopped", alive |-> {}, signalled |-> {}, call |-> "none", result |-> "none"]

(***************************************************************************)
(* Names                                                                   *)
(***************************************************************************)
RootPath == <<".">>
DirName == <<"s">>
FileName == <<"s", "x">>

\* filepath.Join(dir, name), as filepath.Walk builds the paths it visits
Join(dir, name) == IF dir = <<".">> THEN name ELSE dir \o PathSeparator \o name

\* the name fsnotify gives the event of a child of a watched path
ChildName(watch, name) == watch \o PathSeparator \o name

\* filepath.Clean of the names of the model: a leading "./" is dropped
Clean(name) == IF HasPrefix(name, <<".", "/">>) THEN SubSeq(name, 3, Len(name)) ELSE name

\* whether os.Stat(name).IsDir(): in the trees of the model the
\* sub-directories are named "s" and the files "sx"
StatIsDir(name) == name = RootPath \/ name[Len(name)] = "s"

FilePaths == {FileName, Join(DirName, FileName)}

\* the names of the events the notification source can deliver for a watch:
\* those of the children of the watched path
EventNames(watch) ==
    {ChildName(watch, FileName)}
        \cup (IF watch = RootPath THEN {ChildName(watch, DirName)} ELSE {})

(***************************************************************************)
(* Configurations                                                          *)
(***************************************************************************)
MaxInterval == 1

Commands == << <<"a", " ", "%", "f">>, <<"%", "t">> >>

\* the configurations of the model: a recursive watch of everything with a
\* minimum interval, and a flat watch of the writes and deletions of the
\* files named "sx" without one
Configs ==
    {[Recursive |-> TRUE, Events |-> <<"all">>, IncludePattern |-> <<".", "*">>,
      Commands |-> Commands, Interval |-> MaxInterval, ContinueOnError |-> FALSE],
     [Recursive |-> FALSE, Events |-> <<"Modify", "delete">>,
      IncludePattern |-> <<"s", "x">>,
      Commands |-> Commands, Interval |-> 0, ContinueOnError |-> TRUE]}

StartTime == MaxInterval + 1

TypeOK ==
    /\ watcher \in {"nil", "open", "closed"}
    /\ producer \in {"none", "running", "done"}
    /\ worker \in {"none", "idle", "poll", "fingerprint", "run", "exited"}
    /\ started \in {"none", "nil", "error", "panic"}
    /\ eventsClosed \in BOOLEAN
    /\ Len(events) <= MaxQueue
    /\ delivered \in 0..MaxEvents
    /\ now \in 1..(StartTime + MaxTime)
    /\ lastExec \in 0..(StartTime + MaxTime)
    /\ \A f \in FilePaths : files[f] \in Contents
    /\ daemon.running \in BOOLEAN
    /\ daemon.foreground \in BOOLEAN
    /\ daemon.pid \in {0, OwnPid} \cup OtherPids
    /\ daemon.pidFile \in {0, OwnPid} \cup OtherPids
    /\ daemon.service \in {"stopped", "started"}
    /\ daemon.alive \subseteq OtherPids
    /\ daemon.signalled \subseteq {OwnPid} \cup OtherPids

\* NewWatchService returned a service: the event list is valid; Start was not called
InitService ==
    /\ path = RootPath
    /\ \E c \in Configs :
          /\ config = [f \in DOMAIN c \ {"ContinueOnError"} |-> c[f]]
          /\ ContinueOnError = c.ContinueOnError
    /\ ~validateWatchFlags(config.Events).err
    /\ watchFlags = validateWatchFlags(config.Events).flags
    /\ watcher = "nil"
    /\ watches = {}
    /\ dirs = {}
    /\ entries = NoEntries
    /\ events = <<>>
    /\ eventsClosed = FALSE
    /\ producer = "none"
    /\ worker = "none"
    /\ evt = NoEvent
    /\ lastSize = 0
    /\ counter = 0
    /\ cmdIdx = 0
    /\ lastExec = 0
    /\ now = StartTime
    /\ started = "none"
    /\ watcherErr = "nil"
    /\ files \in [FilePaths -> {<<>>}]
    /\ delivered = 0
    /\ stages = <<>>
    /\ outcome = ""
    /\ checkedAt = 0
    /\ prevCheckedAt = 0
    /\ prevDebounce = 0
    /\ purged = {}
    /\ lastCmd = NoCmd

\* the service, and the daemon made for it by NewDaemon
Init ==
    /\ InitService
    /\ daemon = NewDaemon

(***************************************************************************)
(* Start and Stop                                                          *)
(***************************************************************************)
\* the directories filepath.Walk visits, in its order: the root, and its
\* sub-directory when there is one and the root can be read (when it cannot,
\* the callback is called again with errPath set and answers SkipDir)
WalkList(readable, hasSub) ==
    IF readable /\ hasSub THEN <<path, Join(path, DirName)>> ELSE <<path>>

\* watchFolders, for a root that os.Lstat finds in recursive mode; failAt is
\* the index of the registration that fails (0: none)
watchFolders(rootOk, readable, hasSub, failAt) ==
    IF config.Recursive
    THEN LET list == WalkList(readable, hasSub)
             failed == failAt \in 1..Len(list)
             keyed == IF failed THEN failAt ELSE Len(list)
             watched == IF failed THEN failAt - 1 ELSE Len(list)
         IN  [dirs |-> dirs \cup {<<".", "/">> \o list[i] : i \in 1..keyed},
              watches |-> watches \cup {list[i] : i \in 1..watched},
              err |-> IF failed THEN "Watch" ELSE "nil"]
    ELSE LET ok == rootOk /\ failAt = 0
         IN  [dirs |-> dirs,
              watches |-> IF ok THEN watches \cup {path} ELSE watches,
              err |-> IF ok THEN "nil" ELSE "Watch"]

\* Start: startWatcher, whose error is dropped, then startWorker; the named
\* result err is never assigned, so nil is returned.  In recursive mode a root
\* that os.Lstat does not find makes filepath.Walk call the callback with a
\* nil info, and info.IsDir() panics.
Start ==
    /\ started = "none"
    /\ \E newWatcherOk, rootOk, readable, hasSub \in BOOLEAN, failAt \in 0..2 :
          IF ~newWatcherOk
          THEN /\ watcherErr' = "NewWatcher"
               /\ started' = "nil"
               /\ worker' = "idle"
               /\ UNCHANGED <<watcher, producer, dirs, watches>>
          ELSE IF config.Recursive /\ ~rootOk
          THEN /\ watcher' = "open"
               /\ watcherErr' = "panic"
               /\ started' = "panic"
               /\ UNCHANGED <<worker, producer, dirs, watches>>
          ELSE LET r == watchFolders(rootOk, readable, hasSub, failAt)
               IN  /\ watcher' = "open"
                   /\ producer' = "running"
                   /\ dirs' = r.dirs
                   /\ watches' = r.watches
                   /\ watcherErr' = r.err
                   /\ started' = "nil"
                   /\ worker' = "idle"
    /\ UNCHANGED <<cfgVars, daemon, entries, events, eventsClosed, evt, purged, lastSize, counter, cmdIdx,
                   lastExec, now, files, delivered, stages, outcome, checkedAt,
                   prevCheckedAt, prevDebounce, lastCmd>>

\* Stop: watcher.Close(), which closes watcher.Event and watcher.Error
Stop ==
    /\ started = "nil"
    /\ watcher = "open"
    /\ watcher' = "closed"
    /\ UNCHANGED <<cfgVars, daemon, watches, dirs, entries, events, eventsClosed, producer, worker,
                   evt, purged, lastSize, counter, cmdIdx, lastExec, now, started, watcherErr,
                   files, delivered, stages, outcome, checkedAt, prevCheckedAt, prevDebounce, lastCmd>>

(***************************************************************************)
(* The producer: the goroutine of startWatcher                             *)
(***************************************************************************)
\* the events the notification source can deliver: any kind for a child of a
\* watched path; a content write only for a file
RawEvents ==
    {e \in [name : UNION {EventNames(w) : w \in watches}, kind : Kinds] :
        e.kind = "Modify" => ~StatIsDir(e.name)}

\* a plausible slip: a stack in place of the channel, the newest event first
ProducerEventNewestFirst ==
    /\ producer = "running"
    /\ watcher = "open"
    /\ delivered < MaxEvents
    /\ Len(events) < MaxQueue
    /\ \E e \in RawEvents : events' = <<e>> \o events
    /\ delivered' = delivered + 1
    /\ UNCHANGED <<cfgVars, daemon, watcher, watches, dirs, entries, eventsClosed, producer, worker,
                   evt, purged, lastSize, counter, cmdIdx, lastExec, now, started, watcherErr,
                   files, stages, outcome, checkedAt, prevCheckedAt, prevDebounce, lastCmd>>

\* case evt, ok := <-w.watcher.Event, ok: events <- evt
ProducerEvent ==
    /\ producer = "running"
    /\ watcher = "open"
    /\ delivered < MaxEvents
    /\ Len(events) < MaxQueue
    /\ \E e \in RawEvents : events' = Append(events, e)
    /\ delivered' = delivered + 1
    /\ UNCHANGED <<cfgVars, daemon, watcher, watches, dirs, entries, eventsClosed, producer, worker,
                   evt, purged, lastSize, counter, cmdIdx, lastExec, now, started, watcherErr,
                   files, stages, outcome, checkedAt, prevCheckedAt, prevDebounce, lastCmd>>

\* case evt, ok := <-w.watcher.Event, !ok: close(events); return
ProducerEventClosed ==
    /\ producer = "running"
    /\ watcher = "closed"
    /\ eventsClosed' = TRUE
    /\ producer' = "done"
    /\ UNCHANGED <<cfgVars, daemon, watcher, watches, dirs, entries, events, worker,
                   evt, purged, lastSize, counter, cmdIdx, lastExec, now, started, watcherErr,
                   files, delivered, stages, outcome, checkedAt, prevCheckedAt, prevDebounce, lastCmd>>

\* case err, ok := <-w.watcher.Error, ok: the error is logged
ProducerError ==
    /\ producer = "running"
    /\ watcher = "open"
    /\ UNCHANGED vars

\* case err, ok := <-w.watcher.Error, !ok: return
ProducerErrorClosed ==
    /\ producer = "running"
    /\ watcher = "closed"
    /\ producer' = "done"
    /\ UNCHANGED <<cfgVars, daemon, watcher, watches, dirs, entries, events, eventsClosed, worker,
                   evt, purged, lastSize, counter, cmdIdx, lastExec, now, started, watcherErr,
                   files, delivered, stages, outcome, checkedAt, prevCheckedAt, prevDebounce, lastCmd>>

(***************************************************************************)
(* The consumer: the goroutine of startWorker                              *)
(***************************************************************************)
isDir(name) == name \in dirs

\* the entries left once those under the directory name are deleted
PurgeUnder(name) ==
    LET dirPath == name \o PathSeparator
        keep == {n \in DOMAIN entries : ~HasPrefix(n, dirPath)}
    IN  [n \in keep |-> entries[n]]

\* a plausible slip: the prefix without the path separator
syncWatchersAndCachesNoSeparator(e, statErr, watchOk) ==
    IF IsCreate(e)
    THEN IF ~statErr /\ StatIsDir(e.name)
         THEN [dirs |-> dirs \cup {e.name},
               watches |-> IF watchOk THEN watches \cup {e.name} ELSE watches,
               entries |-> entries]
         ELSE [dirs |-> dirs, watches |-> watches, entries |-> entries]
    ELSE IF IsRename(e) \/ IsDelete(e)
    THEN IF isDir(e.name)
         THEN [dirs |-> dirs \ {e.name},
               watches |-> watches \ {e.name},
               entries |-> [n \in {m \in DOMAIN entries : ~HasPrefix(m, e.name)}
                               |-> entries[n]]]
         ELSE [dirs |-> dirs, watches |-> watches,
               entries |-> [n \in DOMAIN entries \ {e.name} |-> entries[n]]]
    ELSE [dirs |-> dirs, watches |-> watches, entries |-> entries]

\* a plausible slip: the sync inside the filters, for the events they admit
syncWatchersAndCachesIfAdmitted(e, statErr, watchOk) ==
    IF ~(checkPatternMatching(config.IncludePattern, e) /\ checkEventType(watchFlags, e))
    THEN [dirs |-> dirs, watches |-> watches, entries |-> entries]
    ELSE IF IsCreate(e)
    THEN IF ~statErr /\ StatIsDir(e.name)
         THEN [dirs |-> dirs \cup {e.name},
               watches |-> IF watchOk THEN watches \cup {e.name} ELSE watches,
               entries |-> entries]
         ELSE [dirs |-> dirs, watches |-> watches, entries |-> entries]
    ELSE IF IsRename(e) \/ IsDelete(e)
    THEN IF isDir(e.name)
         THEN [dirs |-> dirs \ {e.name},
               watches |-> watches \ {e.name},
               entries |-> PurgeUnder(e.name)]
         ELSE [dirs |-> dirs, watches |-> watches,
               entries |-> [n \in DOMAIN entries \ {e.name} |-> entries[n]]]
    ELSE [dirs |-> dirs, watches |-> watches, entries |-> entries]

\* syncWatchersAndCaches: statErr is whether os.Stat fails, watchOk whether
\* watcher.Watch succeeds (its error is dropped)
syncWatchersAndCaches(e, statErr, watchOk) ==
    IF IsCreate(e)
    THEN IF ~statErr /\ StatIsDir(e.name)
         THEN [dirs |-> dirs \cup {e.name},
               watches |-> IF watchOk THEN watches \cup {e.name} ELSE watches,
               entries |-> entries]
         ELSE [dirs |-> dirs, watches |-> watches, entries |-> entries]
    ELSE IF IsRename(e) \/ IsDelete(e)
    THEN IF isDir(e.name)
         THEN [dirs |-> dirs \ {e.name},
               watches |-> watches \ {e.name},
               entries |-> PurgeUnder(e.name)]
         ELSE [dirs |-> dirs, watches |-> watches,
               entries |-> [n \in DOMAIN entries \ {e.name} |-> entries[n]]]
    ELSE [dirs |-> dirs, watches |-> watches, entries |-> entries]

\* a plausible slip: the debouncer ahead of the throttle gate
RouteDebounceFirst(e, synced) ==
    IF ~checkPatternMatching(config.IncludePattern, e)
    THEN [stages |-> <<"sync", "pattern">>, next |-> "dropped_pattern"]
    ELSE IF ~checkEventType(watchFlags, e)
    THEN [stages |-> <<"sync", "pattern", "type">>, next |-> "dropped_type"]
    ELSE IF e.name \notin synced.dirs /\ IsModify(e)
    THEN [stages |-> <<"sync", "pattern", "type", "debounce">>, next |-> "debounce"]
    ELSE IF ~checkExecInterval(lastExec, config.Interval, now)
    THEN [stages |-> <<"sync", "pattern", "type", "throttle">>, next |-> "suppressed"]
    ELSE [stages |-> <<"sync", "pattern", "type", "throttle", "run">>, next |-> "run"]

\* the body of the loop of startWorker after the sync, up to the debouncer or
\* the command run: the stages the event goes through and where it goes next
Route(e, synced) ==
    IF ~checkPatternMatching(config.IncludePattern, e)
    THEN [stages |-> <<"sync", "pattern">>, next |-> "dropped_pattern"]
    ELSE IF ~checkEventType(watchFlags, e)
    THEN [stages |-> <<"sync", "pattern", "type">>, next |-> "dropped_type"]
    ELSE IF ~checkExecInterval(lastExec, config.Interval, now)
    THEN [stages |-> <<"sync", "pattern", "type", "throttle">>, next |-> "suppressed"]
    ELSE IF e.name \in synced.dirs
    THEN [stages |-> <<"sync", "pattern", "type", "throttle", "run">>, next |-> "run"]
    ELSE IF IsModify(e)
    THEN [stages |-> <<"sync", "pattern", "type", "throttle", "debounce">>,
          next |-> "debounce"]
    ELSE [stages |-> <<"sync", "pattern", "type", "throttle", "run">>, next |-> "run"]

\* for evt := range events: one event is taken and processed up to the first
\* point where the loop waits (the debouncer's poll, a command)
Dequeue ==
    /\ worker = "idle"
    /\ events # <<>>
    /\ LET e == Head(events) IN
       \E statErr, watchOk \in BOOLEAN :
          LET synced == syncWatchersAndCaches(e, statErr, watchOk /\ watcher = "open")
              routed == Route(e, synced)
              route == routed.next
          IN  /\ evt' = e
              /\ events' = Tail(events)
              /\ dirs' = synced.dirs
              /\ watches' = synced.watches
              /\ entries' = synced.entries
              /\ stages' = routed.stages
              /\ purged' = DOMAIN entries \ DOMAIN synced.entries
              /\ checkedAt' = IF route = "debounce" THEN now ELSE 0
              /\ IF route = "run"
                 THEN /\ lastExec' = now
                      /\ prevCheckedAt' = now
                      /\ prevDebounce' = 0
                      /\ worker' = "run"
                      /\ cmdIdx' = 1
                      /\ outcome' = ""
                      /\ UNCHANGED <<lastSize, counter>>
                 ELSE IF route = "debounce"
                 THEN /\ worker' = "poll"
                      /\ lastSize' = 0
                      /\ counter' = 0
                      /\ outcome' = ""
                      /\ UNCHANGED <<lastExec, prevCheckedAt, prevDebounce, cmdIdx>>
                 ELSE /\ outcome' = route
                      /\ UNCHANGED <<worker, lastExec, prevCheckedAt, prevDebounce, cmdIdx, lastSize, counter>>
    /\ lastCmd' = NoCmd
    /\ UNCHANGED <<cfgVars, daemon, watcher, eventsClosed, producer, now, started, watcherErr,
                   files, delivered>>

\* the range over the closed and drained channel ends
WorkerExit ==
    /\ worker = "idle"
    /\ events = <<>>
    /\ eventsClosed
    /\ worker' = "exited"
    /\ UNCHANGED <<cfgVars, daemon, watcher, watches, dirs, entries, events, eventsClosed, producer,
                   evt, purged, lastSize, counter, cmdIdx, lastExec, now, started, watcherErr,
                   files, delivered, stages, outcome, checkedAt, prevCheckedAt, prevDebounce, lastCmd>>

\* a plausible slip: stable after a single unchanged poll
waitForFileCloseStepOnePoll(size) ==
    IF lastSize = size
    THEN IF counter + 1 >= 1 THEN [stable |-> TRUE, counter |-> counter + 1]
         ELSE [stable |-> FALSE, counter |-> counter + 1]
    ELSE [stable |-> FALSE, counter |-> 0]

\* one turn of the loop of waitForFileClose, for the size just read
waitForFileCloseStep(size) ==
    IF lastSize = size
    THEN IF counter + 1 >= FileCloseCheckThreshold
         THEN [stable |-> TRUE, counter |-> counter + 1]
         ELSE [stable |-> FALSE, counter |-> counter + 1]
    ELSE [stable |-> FALSE, counter |-> 0]

\* waitForFileClose, one poll: the size is read; a failed read ends the
\* debouncer with "no change"; a stable size ends the loop; else the loop sleeps
Poll ==
    /\ worker = "poll"
    /\ \E ioErr \in BOOLEAN :
          IF ioErr
          THEN /\ worker' = "idle"
               /\ outcome' = "failed"
               /\ lastSize' = 0
               /\ counter' = 0
               /\ checkedAt' = 0
               /\ UNCHANGED now
          ELSE LET size == getFileSize(files[Clean(evt.name)])
                   step == waitForFileCloseStep(size)
               IN  IF step.stable
                   THEN /\ worker' = "fingerprint"
                        /\ lastSize' = 0
                        /\ counter' = 0
                        /\ UNCHANGED <<now, outcome, checkedAt>>
                   ELSE /\ now < StartTime + MaxTime
                        /\ now' = now + FileCloseCheckInterval
                        /\ counter' = step.counter
                        /\ lastSize' = size
                        /\ UNCHANGED <<worker, outcome, checkedAt>>
    /\ UNCHANGED <<cfgVars, daemon, watcher, watches, dirs, entries, events, eventsClosed, producer,
                   evt, purged, cmdIdx, lastExec, started, watcherErr, files, delivered, stages,
                   prevCheckedAt, prevDebounce, lastCmd>>

\* a plausible slip: a cached entry is overwritten but never compared
CompareEntryAlwaysChanged(name, c, sizeErr, hashErr) ==
    IF name \notin DOMAIN entries
    THEN IF sizeErr \/ hashErr
         THEN [changed |-> FALSE, err |-> TRUE, entries |-> entries]
         ELSE [changed |-> TRUE, err |-> FALSE,
               entries |-> [n \in DOMAIN entries \cup {name} |->
                               IF n = name
                               THEN [size |-> getFileSize(c), hash |-> getContentHash(c)]
                               ELSE entries[n]]]
    ELSE [changed |-> TRUE, err |-> FALSE,
          entries |-> [entries EXCEPT ![name] =
                          [size |-> getFileSize(c), hash |-> getContentHash(c)]]]

\* a plausible slip: "return contentChanged" where the hash read fails
CompareEntryChangedOnHashError(name, c, sizeErr, hashErr) ==
    IF name \notin DOMAIN entries
    THEN IF sizeErr \/ hashErr
         THEN [changed |-> FALSE, err |-> TRUE, entries |-> entries]
         ELSE [changed |-> TRUE, err |-> FALSE,
               entries |-> [n \in DOMAIN entries \cup {name} |->
                               IF n = name
                               THEN [size |-> getFileSize(c), hash |-> getContentHash(c)]
                               ELSE entries[n]]]
    ELSE IF sizeErr
    THEN [changed |-> FALSE, err |-> TRUE, entries |-> entries]
    ELSE LET sizeDiffers == entries[name].size # getFileSize(c)
             sized == IF sizeDiffers
                      THEN [entries EXCEPT ![name].size = getFileSize(c)]
                      ELSE entries
         IN  IF hashErr
             THEN [changed |-> sizeDiffers, err |-> TRUE, entries |-> sized]
             ELSE LET hashDiffers == sized[name].hash # getContentHash(c)
                  IN  [changed |-> sizeDiffers \/ hashDiffers, err |-> FALSE,
                       entries |-> IF hashDiffers
                                   THEN [sized EXCEPT ![name].hash = getContentHash(c)]
                                   ELSE sized]

\* checkFileContentChanged after waitForFileClose returned nil: newFileEntry
\* for a name not in the cache, else the size and the hash are read and
\* compared in turn; sizeErr and hashErr are whether the reads fail
CompareEntry(name, c, sizeErr, hashErr) ==
    IF name \notin DOMAIN entries
    THEN IF sizeErr \/ hashErr
         THEN [changed |-> FALSE, err |-> TRUE, entries |-> entries]
         ELSE [changed |-> TRUE, err |-> FALSE,
               entries |-> [n \in DOMAIN entries \cup {name} |->
                               IF n = name
                               THEN [size |-> getFileSize(c), hash |-> getContentHash(c)]
                               ELSE entries[n]]]
    ELSE IF sizeErr
    THEN [changed |-> FALSE, err |-> TRUE, entries |-> entries]
    ELSE LET sizeDiffers == entries[name].size # getFileSize(c)
             sized == IF sizeDiffers
                      THEN [entries EXCEPT ![name].size = getFileSize(c)]
                      ELSE entries
         IN  IF hashErr
             THEN [changed |-> FALSE, err |-> TRUE, entries |-> sized]
             ELSE LET hashDiffers == sized[name].hash # getContentHash(c)
                  IN  [changed |-> sizeDiffers \/ hashDiffers, err |-> FALSE,
                       entries |-> IF hashDiffers
                                   THEN [sized EXCEPT ![name].hash = getContentHash(c)]
                                   ELSE sized]

\* a plausible slip: lastExec not assigned on the path through the debouncer
FingerprintKeepsClock ==
    /\ worker = "fingerprint"
    /\ \E sizeErr, hashErr \in BOOLEAN :
          LET r == CompareEntry(evt.name, files[Clean(evt.name)], sizeErr, hashErr)
          IN  /\ entries' = r.entries
              /\ IF r.changed
                 THEN /\ prevCheckedAt' = checkedAt
                      /\ prevDebounce' = now - checkedAt
                      /\ worker' = "run"
                      /\ cmdIdx' = 1
                      /\ stages' = Append(stages, "run")
                      /\ UNCHANGED <<outcome, lastExec>>
                 ELSE /\ worker' = "idle"
                      /\ outcome' = IF r.err THEN "failed" ELSE "unchanged"
                      /\ UNCHANGED <<lastExec, prevCheckedAt, prevDebounce, cmdIdx, stages>>
    /\ checkedAt' = 0
    /\ UNCHANGED <<cfgVars, daemon, watcher, watches, dirs, events, eventsClosed, producer,
                   evt, purged, lastSize, counter, now, started, watcherErr, files, delivered,
                   lastCmd>>

\* the rest of checkFileContentChanged and what startWorker does with its answer
Fingerprint ==
    /\ worker = "fingerprint"
    /\ \E sizeErr, hashErr \in BOOLEAN :
          LET r == CompareEntry(evt.name, files[Clean(evt.name)], sizeErr, hashErr)
          IN  /\ entries' = r.entries
              /\ IF r.changed
                 THEN /\ lastExec' = now
                      /\ prevCheckedAt' = checkedAt
                      /\ prevDebounce' = now - checkedAt
                      /\ worker' = "run"
                      /\ cmdIdx' = 1
                      /\ stages' = Append(stages, "run")
                      /\ UNCHANGED outcome
                 ELSE /\ worker' = "idle"
                      /\ outcome' = IF r.err THEN "failed" ELSE "unchanged"
                      /\ UNCHANGED <<lastExec, prevCheckedAt, prevDebounce, cmdIdx, stages>>
    /\ checkedAt' = 0
    /\ UNCHANGED <<cfgVars, daemon, watcher, watches, dirs, events, eventsClosed, producer,
                   evt, purged, lastSize, counter, now, started, watcherErr, files, delivered,
                   lastCmd>>

\* a plausible slip: the loop of run without its break
RunCommandNoBreak ==
    /\ worker = "run"
    /\ \E cmdErr \in BOOLEAN :
          LET command == config.Commands[cmdIdx]
              last == cmdIdx = Len(config.Commands)
          IN  /\ lastCmd' = [line |-> evaluateVariables(command, evt), command |-> command,
                             event |-> evt, err |-> cmdErr]
              /\ IF last
                 THEN /\ worker' = "idle"
                      /\ outcome' = "executed"
                      /\ cmdIdx' = 0
                 ELSE /\ cmdIdx' = cmdIdx + 1
                      /\ UNCHANGED <<worker, outcome>>
    /\ UNCHANGED <<cfgVars, daemon, watcher, watches, dirs, entries, events, eventsClosed, producer,
                   evt, purged, lastSize, counter, lastExec, now, started, watcherErr, files,
                   delivered, stages, checkedAt, prevCheckedAt, prevDebounce>>

\* run and execute: the next command of the list is evaluated and run; cmdErr
\* is whether it fails (a launch failure or a non-zero exit)
RunCommand ==
    /\ worker = "run"
    /\ \E cmdErr \in BOOLEAN :
          LET command == config.Commands[cmdIdx]
              last == (cmdErr /\ ~ContinueOnError) \/ cmdIdx = Len(config.Commands)
          IN  /\ lastCmd' = [line |-> evaluateVariables(command, evt), command |-> command,
                             event |-> evt, err |-> cmdErr]
              /\ IF last
                 THEN /\ worker' = "idle"
                      /\ outcome' = "executed"
                      /\ cmdIdx' = 0
                 ELSE /\ cmdIdx' = cmdIdx + 1
                      /\ UNCHANGED <<worker, outcome>>
    /\ UNCHANGED <<cfgVars, daemon, watcher, watches, dirs, entries, events, eventsClosed, producer,
                   evt, purged, lastSize, counter, lastExec, now, started, watcherErr, files,
                   delivered, stages, checkedAt, prevCheckedAt, prevDebounce>>

(***************************************************************************)
(* The environment: time passes, files are written                         *)
(***************************************************************************)
\* The program reads the clock in Dequeue (the throttle gate, lastExec) and in
\* Fingerprint (lastExec) only, so time is let pass where such a read is next.
Tick ==
    /\ \/ worker = "idle" /\ events # <<>>
       \/ worker = "fingerprint"
    /\ now < StartTime + MaxTime
    /\ now' = now + 1
    /\ UNCHANGED <<cfgVars, daemon, watcher, watches, dirs, entries, events, eventsClosed, producer,
                   worker, evt, purged, lastSize, counter, cmdIdx, lastExec, started, watcherErr,
                   files, delivered, stages, outcome, checkedAt, prevCheckedAt, prevDebounce, lastCmd>>

\* The program reads a file in Poll and in Fingerprint only, and only the file
\* of the event in evt, so a file is written where such a read is next.
WriteFile ==
    /\ worker \in {"poll", "fingerprint"}
    /\ \E f \in {Clean(evt.name)}, c \in Contents :
          /\ c # files[f]
          /\ files' = [files EXCEPT ![f] = c]
    /\ UNCHANGED <<cfgVars, daemon, watcher, watches, dirs, entries, events, eventsClosed, producer,
                   worker, evt, purged, lastSize, counter, cmdIdx, lastExec, now, started,
                   watcherErr, delivered, stages, outcome, checkedAt, prevCheckedAt, prevDebounce, lastCmd>>

Next ==
    \/ Start
    \/ Stop
    \/ ProducerEvent
    \/ ProducerEventClosed
    \/ ProducerError
    \/ ProducerErrorClosed
    \/ Dequeue
    \/ WorkerExit
    \/ Poll
    \/ Fingerprint
    \/ RunCommand
    \/ Tick
    \/ WriteFile

Spec == Init /\ [][Next]_vars

\* the service from Start on for as long as Stop is not called
NextRunning ==
    \/ Start
    \/ ProducerEvent
    \/ ProducerError
    \/ Dequeue
    \/ Poll
    \/ Fingerprint
    \/ RunCommand
    \/ Tick
    \/ WriteFile

SpecRunning == Init /\ [][NextRunning]_vars

(***************************************************************************)
(* Steps and observations the properties speak of                          *)
(***************************************************************************)
\* the worker takes the next event
DequeueStep ==
    /\ worker = "idle"
    /\ events # <<>>
    /\ events' = Tail(events)
    /\ evt' = Head(events)

\* the debouncer compares the file with the cache and answers
FingerprintStep ==
    /\ worker = "fingerprint"
    /\ worker' # "fingerprint"

\* the (size, checksum) of a file as it is now
FingerprintOf(name) ==
    [size |-> Len(files[Clean(name)]), hash |-> getContentHash(files[Clean(name)])]

\* the cache holds nothing new and nothing different
EntriesKept == \A n \in DOMAIN entries' : n \in DOMAIN entries /\ entries'[n] = entries[n]

C2_StopClosesQueue ==
    (watcher = "closed" /\ producer = "done") => eventsClosed

(***************************************************************************)
(* C3                                                                      *)
(***************************************************************************)
\* C3, as claimed: when the root is invalid or the set-up of the notification
\* source fails, Start returns an error and leaves neither goroutine running;
\* Start returns nil only when the watcher was created and the bootstrap
\* registration succeeded.
C3_StartFailsCleanly ==
    started # "none" =>
        /\ watcherErr # "nil" =>
              started = "error" /\ producer = "none" /\ worker = "none"
        /\ started = "nil" => watcher # "nil" /\ watcherErr = "nil"

(***************************************************************************)
(* C4                                                                      *)
(***************************************************************************)
\* C4, as claimed: after the bootstrap, while the notification source is
\* open, the paths registered with it are exactly the keys of w.dirs.
C4_RegisteredIsWatchSet ==
    (started = "nil" /\ watcher = "open") => watches = dirs

(***************************************************************************)
(* C5                                                                      *)
(***************************************************************************)
PassesFilters(e) ==
    /\ MatchString(config.IncludePattern, e.name)
    /\ \/ e.kind = "Create" /\ "create" \in watchFlags
       \/ e.kind = "Modify" /\ "modify" \in watchFlags
       \/ e.kind = "Delete" /\ "delete" \in watchFlags
       \/ e.kind = "Rename" /\ "rename" \in watchFlags

MaxEventNames == 2

EventWords == {"all", "ALL", "modify", "Modify", "create", "CREATE", "delete", "rename",
               "bogus"}

EventLists == UNION {[1..n -> EventWords] : n \in 0..MaxEventNames}

\* a configuration with any list of event names, NewWatchService not yet
\* called for it, and one raw event of any kind for the worker to classify
InitClassifier ==
    /\ path = RootPath
    /\ \E l \in EventLists :
          config = [Recursive |-> FALSE, Events |-> l, IncludePattern |-> <<".", "*">>,
                    Commands |-> Commands, Interval |-> 0]
    /\ ContinueOnError = FALSE
    /\ watchFlags = {}
    /\ watcher = "nil"
    /\ watches = {}
    /\ dirs = {}
    /\ entries = NoEntries
    /\ \E k \in Kinds : events = <<[name |-> ChildName(RootPath, FileName), kind |-> k]>>
    /\ eventsClosed = FALSE
    /\ producer = "none"
    /\ worker = "none"
    /\ evt = NoEvent
    /\ lastSize = 0
    /\ counter = 0
    /\ cmdIdx = 0
    /\ lastExec = 0
    /\ now = StartTime
    /\ started = "none"
    /\ watcherErr = "nil"
    /\ files \in [FilePaths -> {<<>>}]
    /\ delivered = 0
    /\ stages = <<>>
    /\ outcome = ""
    /\ checkedAt = 0
    /\ prevCheckedAt = 0
    /\ prevDebounce = 0
    /\ purged = {}
    /\ lastCmd = NoCmd
    /\ daemon = NewDaemon

\* NewWatchService: the event list is validated; a list that is not valid
\* gives no service, a valid one a service with its watch flags
NewWatchService ==
    /\ watchFlags = {}
    /\ LET r == validateWatchFlags(config.Events)
       IN  watchFlags' = IF r.err THEN watchFlags ELSE r.flags
    /\ UNCHANGED <<path, config, ContinueOnError, daemon, watcher, watches, dirs, entries, events,
                   eventsClosed, producer, worker, evt, lastSize, counter, cmdIdx, lastExec,
                   now, started, watcherErr, files, delivered, stages, outcome, checkedAt,
                   prevCheckedAt, prevDebounce, purged, lastCmd>>

\* the classifier of startWorker applied to the event: "admitted" when
\* checkEventType answers true, "dropped_type" when the loop continues
ClassifyEvent ==
    /\ watchFlags # {}
    /\ events # <<>>
    /\ evt' = Head(events)
    /\ events' = Tail(events)
    /\ outcome' = IF checkEventType(watchFlags, Head(events)) THEN "admitted"
                  ELSE "dropped_type"
    /\ UNCHANGED <<cfgVars, daemon, watcher, watches, dirs, entries, eventsClosed, producer, worker,
                   lastSize, counter, cmdIdx, lastExec, now, started, watcherErr, files,
                   delivered, stages, checkedAt, prevCheckedAt, prevDebounce, purged, lastCmd>>

NextClassifier ==
    \/ NewWatchService
    \/ ClassifyEvent

SpecClassifier == InitClassifier /\ [][NextClassifier]_vars

\* the mask a valid list of event names stands for
ConfiguredMask(list) ==
    IF \E i \in 1..Len(list) : list[i] \in {"all", "ALL"}
    THEN {"create", "delete", "modify", "rename"}
    ELSE {w \in {"create", "delete", "modify", "rename"} :
             \E i \in 1..Len(list) :
                \/ list[i] = w
                \/ w = "modify" /\ list[i] = "Modify"
                \/ w = "create" /\ list[i] = "CREATE"}

\* the mask value of a kind of raw event; an attribute change has none
KindName(k) ==
    CASE k = "Create" -> "create"
      [] k = "Modify" -> "modify"
      [] k = "Delete" -> "delete"
      [] k = "Rename" -> "rename"
      [] OTHER -> "none"

C8_DebouncerIdempotent ==
    /\ [][(FingerprintStep /\ outcome' # "failed")
            => /\ evt.name \notin DOMAIN entries
                    => /\ worker' = "run"
                       /\ evt.name \in DOMAIN entries'
                       /\ entries'[evt.name] = FingerprintOf(evt.name)
               /\ (evt.name \in DOMAIN entries /\ entries[evt.name] = FingerprintOf(evt.name))
                    => /\ outcome' = "unchanged"
                       /\ worker' = "idle"
                       /\ entries' = entries]_vars
    /\ [][\A n \in DOMAIN entries \cup DOMAIN entries' :
            (n \notin DOMAIN entries \/ n \notin DOMAIN entries' \/ entries'[n] # entries[n])
               => \/ FingerprintStep /\ evt.name = n
                  \/ DequeueStep /\ Head(events).kind \in {"Rename", "Delete"}]_vars

\* the second of two observations of the same content: unchanged
C8_Witness ==
    /\ outcome = "unchanged"
    /\ evt.kind = "Modify"
    /\ evt.name \in DOMAIN entries
    /\ entries[evt.name] = FingerprintOf(evt.name)
    /\ files[Clean(evt.name)] # <<>>

(***************************************************************************)
(* C9: the worker alone, from any state the service can have reached when  *)
(* an event waits in the queue                                             *)
(***************************************************************************)
\* the names the cache can hold an entry for
EntryNames ==
    {ChildName(RootPath, FileName), ChildName(DirName, FileName),
     ChildName(ChildName(RootPath, DirName), FileName)}

\* the service after Start returned and events were processed: the
\* sub-directory "s" was found by the bootstrap or not, a directory "./s" was
\* created since or not and its registration succeeded or not, the cache has
\* entries for names that watched paths gave, and one event waits
InitWorker ==
    /\ path = RootPath
    /\ \E c \in Configs :
          /\ config = [f \in DOMAIN c \ {"ContinueOnError"} |-> c[f]]
          /\ ContinueOnError = c.ContinueOnError
    /\ watchFlags = validateWatchFlags(config.Events).flags
    /\ watcher = "open"
    /\ \E hasSub, created, watched \in BOOLEAN :
          LET sub == ChildName(RootPath, DirName)
          IN  /\ watched => created
              /\ dirs = (IF config.Recursive
                         THEN {<<".", "/">> \o RootPath}
                                 \cup (IF hasSub THEN {<<".", "/">> \o DirName} ELSE {})
                         ELSE {})
                           \cup (IF created THEN {sub} ELSE {})
              /\ watches = {RootPath}
                              \cup (IF config.Recursive /\ hasSub THEN {DirName} ELSE {})
                              \cup (IF watched THEN {sub} ELSE {})
    /\ \E D \in SUBSET EntryNames, c \in Contents :
          /\ \A n \in D : \E w \in watches : n \in EventNames(w)
          /\ D = {} => c = <<>>
          /\ entries = [n \in D |-> [size |-> getFileSize(c), hash |-> getContentHash(c)]]
    /\ \E e \in RawEvents : events = <<e>>
    /\ eventsClosed = FALSE
    /\ producer = "running"
    /\ worker = "idle"
    /\ evt = NoEvent
    /\ lastSize = 0
    /\ counter = 0
    /\ cmdIdx = 0
    /\ lastExec \in {0, StartTime}
    /\ now = StartTime
    /\ started = "nil"
    /\ watcherErr = "nil"
    /\ \E c \in Contents : files = [f \in FilePaths |-> c]
    /\ delivered = 1
    /\ stages = <<>>
    /\ outcome = ""
    /\ checkedAt = 0
    /\ prevCheckedAt = lastExec
    /\ prevDebounce = 0
    /\ purged = {}
    /\ lastCmd = NoCmd
    /\ daemon = NewDaemon

NextWorker ==
    \/ Dequeue
    \/ Poll
    \/ Fingerprint
    \/ RunCommand
    \/ Tick
    \/ WriteFile

SpecWorker == InitWorker /\ [][NextWorker]_vars

\* the name n starts with the characters of p
StartsWith(n, p) ==
    /\ Len(p) <= Len(n)
    /\ \A i \in 1..Len(p) : n[i] = p[i]

\* C9: when the worker takes a Rename or Delete event for a path d of the
\* watch set, after the sync d is not in the watch set and not registered,
\* the cache has no entry whose name starts with d followed by the path
\* separator, and every other entry is as it was (a sibling such as d + "x"
\* included); when d is not a watched directory, only the entry of d itself is
\* removed and the watch set and the registrations are as they were.
C9_PurgeByPrefix ==
    [][(DequeueStep /\ Head(events).kind \in {"Rename", "Delete"})
          => LET d == Head(events).name
                 under == {n \in DOMAIN entries : StartsWith(n, d \o <<"/">>)}
             IN  IF d \in dirs
                 THEN /\ dirs' = dirs \ {d}
                      /\ d \notin watches'
                      /\ DOMAIN entries' = DOMAIN entries \ under
                      /\ \A n \in DOMAIN entries' : entries'[n] = entries[n]
                 ELSE /\ dirs' = dirs
                      /\ watches' = watches
                      /\ DOMAIN entries' = DOMAIN entries \ {d}
                      /\ \A n \in DOMAIN entries' : entries'[n] = entries[n]]_vars

\* the watched directory "./s" went: the entry under it was purged, the entry
\* of its sibling "./sx" was kept
C9_Witness ==
    /\ evt.kind \in {"Rename", "Delete"}
    /\ evt.name = ChildName(RootPath, DirName)
    /\ evt.name \notin dirs
    /\ purged = {ChildName(evt.name, FileName)}
    /\ ChildName(RootPath, FileName) \in DOMAIN entries

(***************************************************************************)
(* C10: the command runner on every template and every event that reaches  *)
(* it                                                                      *)
(***************************************************************************)
\* "echo %f %t", "%t %t", "%f%f", "ls", "%t%f"
Templates ==
    {<<"e", "c", "h", "o", " ", "%", "f", " ", "%", "t">>,
     <<"%", "t", " ", "%", "t">>,
     <<"%", "f", "%", "f">>,
     <<"l", "s">>,
     <<"%", "t", "%", "f">>}

\* the watched directory and the name of one of its files: "/tmp/a.txt" in
\* "/tmp", and files named "sx" and "%t" in "."
ExecNames ==
    {[dir |-> <<"/", "t", "m", "p">>, name |-> <<"/", "t", "m", "p", "/", "a", ".", "t", "x", "t">>],
     [dir |-> RootPath, name |-> ChildName(RootPath, FileName)],
     [dir |-> RootPath, name |-> ChildName(RootPath, <<"%", "t">>)]}

\* the worker about to run the commands for an event that passed the gates
InitExec ==
    /\ \E n \in ExecNames, k \in Kinds \ {"Attrib"} :
          /\ path = n.dir
          /\ evt = [name |-> n.name, kind |-> k]
    /\ \E t1 \in Templates, t2 \in Templates \cup {<<>>} :
          config = [Recursive |-> FALSE, Events |-> <<"all">>,
                    IncludePattern |-> <<".", "*">>,
                    Commands |-> IF t2 = <<>> THEN <<t1>> ELSE <<t1, t2>>,
                    Interval |-> 0]
    /\ ContinueOnError \in BOOLEAN
    /\ watchFlags = validateWatchFlags(config.Events).flags
    /\ watcher = "open"
    /\ watches = {path}
    /\ dirs = {}
    /\ entries = NoEntries
    /\ events = <<>>
    /\ eventsClosed = FALSE
    /\ producer = "running"
    /\ worker = "run"
    /\ lastSize = 0
    /\ counter = 0
    /\ cmdIdx = 1
    /\ lastExec = StartTime
    /\ now = StartTime
    /\ started = "nil"
    /\ watcherErr = "nil"
    /\ files \in [FilePaths -> {<<>>}]
    /\ delivered = 1
    /\ stages = <<"sync", "pattern", "type", "throttle", "run">>
    /\ outcome = ""
    /\ checkedAt = 0
    /\ prevCheckedAt = StartTime
    /\ prevDebounce = 0
    /\ purged = {}
    /\ lastCmd = NoCmd
    /\ daemon = NewDaemon

NextExec == RunCommand

SpecExec == InitExec /\ [][NextExec]_vars

RECURSIVE SplitOn(_, _)
\* the pieces of s between the occurrences of the token, found from the left
SplitOn(s, token) ==
    IF \E i \in 1..(Len(s) - Len(token) + 1) : SubSeq(s, i, i + Len(token) - 1) = token
    THEN LET i == CHOOSE j \in 1..(Len(s) - Len(token) + 1) :
                     /\ SubSeq(s, j, j + Len(token) - 1) = token
                     /\ \A h \in 1..(j - 1) : SubSeq(s, h, h + Len(token) - 1) # token
         IN  <<SubSeq(s, 1, i - 1)>> \o SplitOn(SubSeq(s, i + Len(token), Len(s)), token)
    ELSE <<s>>

RECURSIVE JoinWith(_, _)
\* the pieces with the separator between them
JoinWith(pieces, sep) ==
    IF Len(pieces) = 1 THEN pieces[1]
    ELSE pieces[1] \o sep \o JoinWith(Tail(pieces), sep)

\* the type names of the claim
FlagNameOf(e) ==
    CASE e.kind = "Create" -> <<"c", "r", "e", "a", "t", "e">>
      [] e.kind = "Modify" -> <<"m", "o", "d", "i", "f", "y">>
      [] e.kind = "Delete" -> <<"d", "e", "l", "e", "t", "e">>
      [] e.kind = "Rename" -> <<"r", "e", "n", "a", "m", "e">>

\* the type names of the program
EntryNameOf(e) ==
    <<"E", "N", "T", "R", "Y", "_">> \o
       (CASE e.kind = "Create" -> <<"C", "R", "E", "A", "T", "E">>
          [] e.kind = "Modify" -> <<"M", "O", "D", "I", "F", "Y">>
          [] e.kind = "Delete" -> <<"D", "E", "L", "E", "T", "E">>
          [] e.kind = "Rename" -> <<"R", "E", "N", "A", "M", "E">>)

\* the template with each %f of the template replaced by the name and each %t
\* of the template by the type name
Substituted(template, name, type) ==
    LET pieces == SplitOn(template, <<"%", "f">>)
    IN  JoinWith([i \in 1..Len(pieces) |->
                     JoinWith(SplitOn(pieces[i], <<"%", "t">>), type)], name)

\* C10, as claimed: the command line that is executed is the template with
\* each %f replaced by the event's path and each %t replaced by "create",
\* "modify", "delete" or "rename".
C10_FlagNames ==
    lastCmd # NoCmd =>
        lastCmd.line = Substituted(lastCmd.command, lastCmd.event.name,
                                   FlagNameOf(lastCmd.event))

\* C10, amended: the command line that is executed is the template with each
\* %f replaced by the event's path and then, in the result, each %t replaced
\* by "ENTRY_CREATE", "ENTRY_MODIFY", "ENTRY_DELETE" or "ENTRY_RENAME": a %t
\* in the path is replaced as well.  For a path without %t this is the
\* template with each %f replaced by the path and each %t by that name.
C10_EntryNames ==
    lastCmd # NoCmd =>
        LET type == EntryNameOf(lastCmd.event)
            name == lastCmd.event.name
        IN  /\ lastCmd.line =
                  JoinWith(SplitOn(JoinWith(SplitOn(lastCmd.command, <<"%", "f">>), name),
                                   <<"%", "t">>), type)
            /\ SplitOn(name, <<"%", "t">>) = <<name>>
                  => lastCmd.line = Substituted(lastCmd.command, name, type)

\* "echo %f %t" for a Modify event of /tmp/a.txt ran "echo /tmp/a.txt ENTRY_MODIFY"
C10_Witness ==
    /\ lastCmd.command = <<"e", "c", "h", "o", " ", "%", "f", " ", "%", "t">>
    /\ lastCmd.event = [name |-> <<"/", "t", "m", "p", "/", "a", ".", "t", "x", "t">>,
                        kind |-> "Modify"]
    /\ lastCmd.line = <<"e", "c", "h", "o", " ", "/", "t", "m", "p", "/", "a", ".", "t", "x", "t",
                        " ", "E", "N", "T", "R", "Y", "_", "M", "O", "D", "I", "F", "Y">>

(***************************************************************************)
(* C11                                                                     *)
(***************************************************************************)
\* a command of the list is run for the event in evt
RunStep == worker = "run" /\ cmdIdx' # cmdIdx

\* C11: for an event that reaches the command runner the commands are run in
\* the order of the list, starting with the first; when a command fails and
\* continue-on-error is off, no later command is run for the event; when it
\* is on, or the command succeeds, the next command of the list is run, up to
\* the last; either way the worker is then back at its receive, where the
\* next queued event is taken.
C11_RunInOrder ==
    /\ [](/\ worker = "run" => cmdIdx \in 1..Len(config.Commands)
          /\ (worker = "run" /\ lastCmd = NoCmd) => cmdIdx = 1
          /\ (worker = "idle" /\ events # <<>>) => ENABLED Dequeue)
    /\ [][RunStep
            => /\ lastCmd'.command = config.Commands[cmdIdx]
               /\ lastCmd'.event = evt
               /\ evt' = evt
               /\ IF (lastCmd'.err /\ ~ContinueOnError) \/ cmdIdx = Len(config.Commands)
                  THEN worker' = "idle" /\ outcome' = "executed"
                  ELSE worker' = "run" /\ cmdIdx' = cmdIdx + 1 /\ outcome' = ""]_vars

\* the first command failed with continue-on-error off: the second was not
\* run, and the worker is at its receive with the next event queued
C11_Witness ==
    /\ ~ContinueOnError
    /\ lastCmd.err
    /\ lastCmd.command = config.Commands[1]
    /\ Len(config.Commands) > 1
    /\ outcome = "executed"
    /\ worker = "idle"
    /\ events # <<>>

\* with continue-on-error on, the second command was run after the first failed
C11_WitnessContinue ==
    /\ ContinueOnError
    /\ lastCmd.command = config.Commands[2]
    /\ outcome = "executed"

(***************************************************************************)
(* C12                                                                     *)
(***************************************************************************)
\* the outcomes with which the processing of an event ends
Terminal == {"dropped_pattern", "dropped_type", "suppressed", "unchanged", "failed",
             "executed"}

\* C12: the queue changes only by a delivered event joining it at the tail
\* and by the worker taking its head; the worker takes an event only when it
\* is at its receive, the event before having reached a terminal outcome; the
\* event in the pipeline changes only by such a take.  So the events go
\* through the pipeline one at a time in the order of delivery and none is
\* lost.
C12_FifoSerial ==
    /\ [](/\ worker \in {"poll", "fingerprint", "run"} => evt # NoEvent /\ outcome = ""
          /\ (worker = "idle" /\ evt # NoEvent) => outcome \in Terminal
          /\ Len(events) <= delivered)
    /\ [][/\ Len(events') > Len(events)
             => /\ Len(events') = Len(events) + 1
                /\ SubSeq(events', 1, Len(events)) = events
                /\ delivered' = delivered + 1
                /\ evt' = evt
          /\ Len(events') < Len(events)
             => /\ worker = "idle"
                /\ evt = NoEvent \/ outcome \in Terminal
                /\ evt' = events[1]
                /\ events' = SubSeq(events, 2, Len(events))
                /\ delivered' = delivered
          /\ Len(events') = Len(events)
             => events' = events /\ evt' = evt /\ delivered' = delivered]_vars

\* an event is in the pipeline and a different one, delivered after it, waits
C12_Witness ==
    /\ evt # NoEvent
    /\ worker \in {"poll", "fingerprint", "run"}
    /\ delivered = 2
    /\ Len(events) = 1
    /\ events[1] # evt

\* two different events wait in the queue
C12_WitnessQueue ==
    /\ Len(events) = 2
    /\ events[1] # events[2]

(***************************************************************************)
(* C13                                                                     *)
(***************************************************************************)
\* C13: the sync is applied to every event the worker takes, in the step
\* that takes it and whatever the filters and the gate answer afterwards:
\* for the Create of a directory, a stat and a registration that succeed put
\* the path in the watch set and register it (only their failure leaves the
\* watch set as it was); for the Rename or Delete of a path of the watch
\* set, the path leaves it; for the Rename or Delete of another path, the
\* cache entry of the path goes.  The stages of every event start with the
\* sync.
C13_SyncBeforeFilters ==
    /\ []((worker = "idle" /\ events # <<>> /\ watcher = "open"
              /\ Head(events).kind = "Create" /\ StatIsDir(Head(events).name))
            => ENABLED (/\ Dequeue
                        /\ Head(events).name \in dirs'
                        /\ Head(events).name \in watches'))
    /\ [](evt # NoEvent => Len(stages) > 0 /\ stages[1] = "sync")
    /\ [][DequeueStep
            => LET e == Head(events) IN
               /\ e.kind = "Create"
                    => /\ dirs' \in {dirs, dirs \cup {e.name}}
                       /\ dirs' # dirs => StatIsDir(e.name)
                       /\ watches' \in {watches, watches \cup {e.name}}
                       /\ watches' \subseteq watches \cup dirs'
                       /\ entries' = entries
               /\ e.kind \in {"Rename", "Delete"}
                    => /\ e.name \notin dirs'
                       /\ e.name \notin watches'
                       /\ e.name \notin DOMAIN entries'
               /\ e.kind \in {"Modify", "Attrib"}
                    => dirs' = dirs /\ watches' = watches /\ entries' = entries]_vars

\* the Create of the directory "./s" was dropped by the pattern filter, and
\* the directory is in the watch set and registered
C13_Witness ==
    /\ outcome = "dropped_pattern"
    /\ evt.kind = "Create"
    /\ ~MatchString(config.IncludePattern, evt.name)
    /\ CreateEvent \notin watchFlags
    /\ evt.name \in dirs
    /\ evt.name \in watches

\* the Create of a directory was suppressed by the gate, and the directory is
\* in the watch set
C13_WitnessSuppressed ==
    /\ outcome = "suppressed"
    /\ evt.kind = "Create"
    /\ evt.name \in dirs

(***************************************************************************)
(* C14: a burst of writes to one file                                      *)
(***************************************************************************)
BurstFile == ChildName(RootPath, FileName)

\* the fingerprint newFileEntry makes of a content
EntryOf(c) == [size |-> getFileSize(c), hash |-> getContentHash(c)]

\* the events the worker has taken so far
Taken == delivered - Len(events)

\* mask {modify}, a pattern that matches, no minimum interval; the file was
\* just written with a content the cache does not hold, and the Modify event
\* of that write waits.  Without a minimum interval only the order of the
\* times matters, so the burst starts one unit after the zero time.
InitBurst ==
    /\ path = RootPath
    /\ \E p \in {<<".", "*">>, <<"s", "x">>} :
          config = [Recursive |-> FALSE, Events |-> <<"modify">>, IncludePattern |-> p,
                    Commands |-> Commands, Interval |-> 0]
    /\ ContinueOnError \in BOOLEAN
    /\ watchFlags = validateWatchFlags(config.Events).flags
    /\ watcher = "open"
    /\ watches = {RootPath}
    /\ dirs = {}
    /\ \E c \in Contents :
          /\ files = [f \in FilePaths |-> IF f = Clean(BurstFile) THEN c ELSE <<>>]
          /\ \/ entries = NoEntries
             \/ \E old \in Contents \ {c} : entries = [n \in {BurstFile} |-> EntryOf(old)]
    /\ events = <<[name |-> BurstFile, kind |-> "Modify"]>>
    /\ eventsClosed = FALSE
    /\ producer = "running"
    /\ worker = "idle"
    /\ evt = NoEvent
    /\ lastSize = 0
    /\ counter = 0
    /\ cmdIdx = 0
    /\ lastExec = 0
    /\ now = 1
    /\ started = "nil"
    /\ watcherErr = "nil"
    /\ delivered = 1
    /\ stages = <<>>
    /\ outcome = ""
    /\ checkedAt = 0
    /\ prevCheckedAt = 0
    /\ prevDebounce = 0
    /\ purged = {}
    /\ lastCmd = NoCmd
    /\ daemon = NewDaemon

\* one more write of the burst, before the debouncer of the first event
\* declares the size stable: a content of another size, which the cache does
\* not hold, and the Modify event of the write, which the producer forwards
WriteBurst ==
    /\ Taken = 0 \/ (Taken = 1 /\ worker = "poll")
    /\ delivered < MaxEvents
    /\ Len(events) < MaxQueue
    /\ \E c \in Contents :
          /\ Len(c) # Len(files[Clean(BurstFile)])
          /\ BurstFile \in DOMAIN entries => EntryOf(c) # entries[BurstFile]
          /\ files' = [files EXCEPT ![Clean(BurstFile)] = c]
    /\ events' = Append(events, [name |-> BurstFile, kind |-> "Modify"])
    /\ delivered' = delivered + 1
    /\ UNCHANGED <<cfgVars, daemon, watcher, watches, dirs, entries, eventsClosed, producer, worker,
                   evt, purged, lastSize, counter, cmdIdx, lastExec, now, started, watcherErr,
                   stages, outcome, checkedAt, prevCheckedAt, prevDebounce, lastCmd>>

\* a poll whose size read succeeds
PollRead == Poll /\ outcome' # "failed"

\* a comparison whose reads succeed
FingerprintRead == Fingerprint /\ outcome' # "failed"

NextBurst ==
    \/ WriteBurst
    \/ Dequeue
    \/ PollRead
    \/ FingerprintRead
    \/ RunCommand
    \/ Tick

SpecBurst == InitBurst /\ [][NextBurst]_vars

\* C14: with mask {modify}, a matching pattern and no minimum interval, when
\* a file is written several times with contents the cache does not hold,
\* the size changing each time and each write giving a Modify event, all of
\* it before the debouncer of the first event declares the size stable, the
\* commands are run for the first event only, once the debouncer has stored
\* the fingerprint of the content of the last write, and every later event
\* of the burst ends "unchanged".
C14_BurstRunsOnce ==
    /\ worker = "run"
          => /\ Taken = 1
             /\ entries[BurstFile] = EntryOf(files[Clean(BurstFile)])
    /\ (worker = "idle" /\ Taken = 1) => outcome = "executed" /\ lastExec # 0
    /\ (worker = "idle" /\ Taken > 1)
          => /\ outcome = "unchanged"
             /\ lastCmd = NoCmd
             /\ entries[BurstFile] = EntryOf(files[Clean(BurstFile)])

\* the second event of a burst of two writes ended unchanged; the debouncer
\* of the first took three polls' time, so the second write came while it
\* polled, and the commands were run after it
C14_Witness ==
    /\ Taken = 2
    /\ worker = "idle"
    /\ outcome = "unchanged"
    /\ prevDebounce >= 3
    /\ lastExec = prevCheckedAt + prevDebounce

\* the same for a write that came before the first event was taken, the file
\* ending with a content that is not empty
C14_WitnessEarlyWrite ==
    /\ Taken = 2
    /\ worker = "idle"
    /\ outcome = "unchanged"
    /\ prevDebounce = 2
    /\ files[Clean(BurstFile)] # <<>>

(***************************************************************************)
(* C15: the worker with commands that take time                            *)
(***************************************************************************)
\* cmd.Run() of execute takes time: the clock advances while a command runs
CommandTime ==
    /\ worker = "run"
    /\ now < StartTime + MaxTime
    /\ now' = now + 1
    /\ UNCHANGED <<cfgVars, daemon, watcher, watches, dirs, entries, events, eventsClosed, producer,
                   worker, evt, purged, lastSize, counter, cmdIdx, lastExec, started, watcherErr,
                   files, delivered, stages, outcome, checkedAt, prevCheckedAt, prevDebounce, lastCmd>>

NextClock ==
    \/ Dequeue
    \/ Poll
    \/ Fingerprint
    \/ RunCommand
    \/ CommandTime
    \/ Tick
    \/ WriteFile

SpecClock == InitWorker /\ [][NextClock]_vars

\* C15, as claimed: lastExec changes only once a command sequence has run,
\* and for an event that executes it is the time at which its command
\* sequence has run.
C15_ClockAfterRun ==
    [][/\ lastExec' # lastExec => (worker = "run" /\ worker' = "idle")
       /\ (worker = "run" /\ worker' = "idle") => lastExec' = now]_vars

\* C15, amended: lastExec is one value for all paths; it is assigned the
\* current time exactly when an event passes to the command runner, before
\* the first of its commands is run, and changes at no other step: not while
\* the commands run nor when they have run, and not for an event that ends
\* dropped by the pattern, dropped by the type, unchanged, failed or
\* suppressed.
C15_ClockBeforeRun ==
    [][/\ (worker # "run" /\ worker' = "run")
            => /\ lastExec' = now
               /\ cmdIdx' = 1
               /\ lastCmd' = NoCmd
       /\ ~(worker # "run" /\ worker' = "run") => lastExec' = lastExec
       /\ outcome' \in {"dropped_pattern", "dropped_type", "suppressed", "unchanged", "failed"}
            => lastExec' = lastExec]_vars

\* the commands of an event have run and took time: lastExec is the time
\* before the first of them
C15_Witness ==
    /\ worker = "idle"
    /\ outcome = "executed"
    /\ events = <<>>
    /\ lastCmd # NoCmd
    /\ lastExec < now
    /\ lastExec > StartTime

(***************************************************************************)
(* C16                                                                     *)
(***************************************************************************)
\* C16: when a size read or a checksum read fails while a Modify event is
\* debounced (in the poll loop, at the first sighting or in the comparison
\* with the cached entry), the event ends there: no command is run for it,
\* lastExec stays, and the worker is back at its receive.  The commands are
\* run after the debouncer only when size and checksum were both read, so
\* that the cache holds the fingerprint of the file.
C16_ReadFailureIsUnchanged ==
    /\ [](outcome = "failed"
            => /\ worker = "idle"
               /\ lastCmd = NoCmd
               /\ cmdIdx = 0
               /\ IsModify(evt)
               /\ ~isDir(evt.name))
    /\ [][/\ (worker \in {"poll", "fingerprint"} /\ outcome' = "failed")
               => /\ lastExec' = lastExec
                  /\ worker' = "idle"
                  /\ events' = events
          /\ (FingerprintStep /\ worker' = "run")
               => /\ evt.name \in DOMAIN entries'
                  /\ entries'[evt.name] = FingerprintOf(evt.name)]_vars

\* a read failed for a Modify event of a path the cache has an entry for
C16_Witness ==
    /\ outcome = "failed"
    /\ evt.kind = "Modify"
    /\ evt.name \in DOMAIN entries
    /\ worker = "idle"
    /\ lastCmd = NoCmd
    /\ daemon = NewDaemon

\* a read failed for a Modify event of a path the cache has no entry for
C16_WitnessFirstSighting ==
    /\ outcome = "failed"
    /\ evt.kind = "Modify"
    /\ evt.name \notin DOMAIN entries

(***************************************************************************)
(* C17                                                                     *)
(***************************************************************************)
\* C17, as claimed: when the worker takes the Create event of a new
\* directory and the stat succeeds, so that the watch set gains the path,
\* the path is registered with the notification source (and the events of
\* the files created in it are delivered); when the watch set does not gain
\* it, nothing is registered.
C17_CreatedDirIsRegistered ==
    [][(DequeueStep /\ config.Recursive /\ watcher = "open"
            /\ Head(events).kind = "Create" /\ Head(events).name \notin dirs)
          => /\ Head(events).name \in dirs' => Head(events).name \in watches'
             /\ Head(events).name \notin dirs' => watches' = watches /\ dirs' = dirs]_vars

\* the scenario when the registration succeeds: the Create event of a file
\* in the directory created since the start has reached the command runner
C17_ScenarioReached ==
    /\ config.Recursive
    /\ evt = [name |-> ChildName(ChildName(RootPath, DirName), FileName), kind |-> "Create"]
    /\ ChildName(RootPath, DirName) \in dirs \cap watches
    /\ DirName \notin watches
    /\ worker = "run"

(***************************************************************************)
(* C18                                                                     *)
(***************************************************************************)
\* the size of the file of the event being debounced
PolledSize == Len(files[Clean(evt.name)])

\* C18: the poll loop declares the size stable only on a poll that reads the
\* size the poll before it read, the count of polls in a row with an
\* unchanged size reaching 2; it ends with an error on the first size read
\* that fails; otherwise it sleeps one interval and polls again, the count
\* going up by one on an unchanged size and back to 0 on a changed one, so
\* that it never ends while the size differs at every poll and ends on the
\* second unchanged poll in a row.  While it polls, the worker takes no
\* other event.
C18_PollLoop ==
    /\ [](worker = "poll"
            => /\ counter \in 0..(FileCloseCheckThreshold - 1)
               /\ outcome = ""
               /\ (counter = FileCloseCheckThreshold - 1 /\ lastSize = PolledSize)
                     => ENABLED (Poll /\ worker' = "fingerprint"))
    /\ [][worker = "poll"
            => /\ evt' = evt
               /\ Len(events') >= Len(events)
               /\ worker' = "fingerprint"
                    => /\ counter + 1 = 2
                       /\ lastSize = PolledSize
                       /\ now' = now
               /\ (worker' = "idle" \/ outcome' # "")
                    => worker' = "idle" /\ outcome' = "failed" /\ now' = now
               /\ now' # now
                    => /\ worker' = "poll"
                       /\ now' = now + FileCloseCheckInterval
                       /\ lastSize' = PolledSize
                       /\ counter' = IF lastSize = PolledSize THEN counter + 1 ELSE 0
               /\ lastSize # PolledSize => worker' # "fingerprint"]_vars

\* the size changed while the loop polled: it went on polling and declared
\* the size stable three intervals or more after it began
C18_Witness ==
    /\ worker = "fingerprint"
    /\ now - checkedAt >= 3 * FileCloseCheckInterval
    /\ checkedAt # 0

(***************************************************************************)
(* C19                                                                     *)
(***************************************************************************)
\* C19, as claimed: when the debouncer ends on a failed read, the cache is as
\* it was before the event: no entry was inserted, and neither the size nor
\* the checksum of an entry was modified.
C19_FailedReadKeepsCache ==
    [][(worker \in {"poll", "fingerprint"} /\ outcome' = "failed") => entries' = entries]_vars

\* what the failed read leaves behind: an entry with the size of the file as
\* it is now and the checksum of the content seen before
C19_TornEntry ==
    /\ outcome = "failed"
    /\ evt.name \in DOMAIN entries
    /\ entries[evt.name].size = FingerprintOf(evt.name).size
    /\ entries[evt.name].hash # FingerprintOf(evt.name).hash
    /\ \A c \in Contents : entries[evt.name] # EntryOf(c)

(***************************************************************************)
(* The daemon wrapper (daemon/daemon.go).  The record daemon holds the      *)
(* Daemon's fields running, foreground and pid; pidFile, the pid written in *)
(* the file "." + name + ".pid" (0: there is no file); service, the state   *)
(* of the wrapped Service; alive, the other processes that are running;     *)
(* signalled, the processes that were sent os.Interrupt; call and result,   *)
(* the latest method called and what it returned.                           *)
(***************************************************************************)
\* isOSProcessRunning(pid): the process is running.  The process that
\* executes the call is running; another one is when it is in alive
isOSProcessRunning(d, pid) == pid = OwnPid \/ pid \in d.alive

\* readPidFromFile: the pid in the file, or an error when there is no file
readPidFromFile(d) == [pid |-> d.pidFile, err |-> d.pidFile = 0]

\* IsRunning's effect on the Daemon: the cached answer when running is set,
\* else pid is assigned from the file (0 on an error) and running is set
\* from the process table when the file was read
IsRunning(d) ==
    IF d.running THEN d
    ELSE LET r  == readPidFromFile(d)
             d1 == [d EXCEPT !.pid = r.pid]
         IN  IF ~r.err THEN [d1 EXCEPT !.running = isOSProcessRunning(d, r.pid)]
             ELSE d1

Returned(d, c, r) == [d EXCEPT !.call = c, !.result = r]

\* Daemon.IsRunning()
DaemonIsRunning ==
    /\ LET d1 == IsRunning(daemon)
       IN  daemon' = Returned(d1, "IsRunning", IF d1.running THEN "true" ELSE "false")
    /\ UNCHANGED <<cfgVars, watcher, watches, dirs, entries, events, eventsClosed, producer,
                   worker, evt, lastSize, counter, cmdIdx, lastExec, now, started, watcherErr,
                   files, delivered, stages, outcome, checkedAt, prevCheckedAt, prevDebounce,
                   purged, lastCmd>>

\* Daemon.Start(): refused when IsRunning; else the pid file is written,
\* then service.Start() is called, and only when it returns nil are
\* foreground, running and pid set.  writeOk and serviceOk are the results
\* of ioutil.WriteFile and of service.Start()
DaemonStart ==
    /\ \E writeOk, serviceOk \in BOOLEAN :
          LET d1 == IsRunning(daemon)
              d2 == [d1 EXCEPT !.pidFile = OwnPid]
          IN  daemon' =
                 IF d1.running THEN Returned(d1, "Start", "already running")
                 ELSE IF ~writeOk THEN Returned(d1, "Start", "write error")
                 ELSE IF ~serviceOk THEN Returned(d2, "Start", "service error")
                 ELSE Returned([d2 EXCEPT !.service = "started", !.foreground = TRUE,
                                          !.running = TRUE, !.pid = OwnPid],
                               "Start", "nil")
    /\ UNCHANGED <<cfgVars, watcher, watches, dirs, entries, events, eventsClosed, producer,
                   worker, evt, lastSize, counter, cmdIdx, lastExec, now, started, watcherErr,
                   files, delivered, stages, outcome, checkedAt, prevCheckedAt, prevDebounce,
                   purged, lastCmd>>

\* Daemon.Stop(): "does not exist" unless IsRunning.  In the foreground the
\* service is stopped, the pid file removed and running cleared; else the
\* process d.pid is sent os.Interrupt and running is read again from the
\* process table.  stopOk and removeOk are the results of service.Stop()
\* and os.Remove; exits tells whether the signalled process has ended by
\* the time it is looked up again
DaemonStop ==
    /\ \E stopOk, removeOk, exits \in BOOLEAN :
          LET d1 == IsRunning(daemon)
              d2 == [d1 EXCEPT !.service = "stopped"]
              d3 == [d1 EXCEPT !.signalled = @ \cup {d1.pid},
                               !.alive = IF exits THEN @ \ {d1.pid} ELSE @]
              d4 == [d3 EXCEPT !.running = isOSProcessRunning(d3, d1.pid)]
          IN  daemon' =
                 IF ~d1.running THEN Returned(d1, "Stop", "does not exist")
                 ELSE IF d1.foreground
                 THEN IF ~stopOk THEN Returned(d1, "Stop", "stop error")
                      ELSE IF ~removeOk \/ d2.pidFile = 0
                           THEN Returned(d2, "Stop", "remove error")
                      ELSE Returned([d2 EXCEPT !.pidFile = 0, !.running = FALSE],
                                    "Stop", "nil")
                 ELSE IF ~isOSProcessRunning(d1, d1.pid)
                      THEN Returned(d1, "Stop", "signal error")
                 ELSE Returned(d4, "Stop", IF d4.running THEN "cannot stop" ELSE "nil")
    /\ UNCHANGED <<cfgVars, watcher, watches, dirs, entries, events, eventsClosed, producer,
                   worker, evt, lastSize, counter, cmdIdx, lastExec, now, started, watcherErr,
                   files, delivered, stages, outcome, checkedAt, prevCheckedAt, prevDebounce,
                   purged, lastCmd>>

\* a daemon made by NewDaemon in a directory where an earlier process may
\* have left its pid file, that process running still or not
InitDaemon ==
    /\ InitService
    /\ \E f \in {0} \cup OtherPids, a \in SUBSET OtherPids :
          daemon = [NewDaemon EXCEPT !.pidFile = f, !.alive = a]

NextDaemon == DaemonStart \/ DaemonIsRunning \/ DaemonStop

SpecDaemon == InitDaemon /\ [][NextDaemon]_vars

FailedStart == daemon.call = "Start" /\ daemon.result = "service error"

\* C20: when Start() has failed because service.Start() returned an error,
\* the daemon is not running: a following IsRunning() answers false, a
\* following Stop() answers "does not exist" and signals no process, and a
\* following Start() is not refused as "already running"
C20_FailedStartNotRunning ==
    /\ [][(FailedStart /\ DaemonIsRunning) => daemon'.result = "false"]_vars
    /\ [][(FailedStart /\ DaemonStop) => /\ daemon'.result = "does not exist"
                                         /\ daemon'.signalled = daemon.signalled]_vars
    /\ [][(FailedStart /\ DaemonStart) => daemon'.result # "already running"]_vars

\* a Start() that failed on service.Start() is followed by a Stop() that
\* sends os.Interrupt to the process that called it
C20_StopSignalsItself ==
    ~(daemon.call = "Stop" /\ OwnPid \in daemon.signalled /\ daemon.service = "stopped"
      /\ ~daemon.foreground)

====
